---- MODULE Spec2Model ----
(***************************************************************************)
(* A model of github-mcp: the GitHubClient (github_client.py) and the MCP  *)
(* tool dispatcher call_tool with its four handlers (server.py).           *)
(*                                                                         *)
(* Python text is a TLA+ string (TLC treats strings as sequences of        *)
(* characters: Len, \o and SubSeq work on them).  A JSON / Python value is *)
(* a tagged record, so that values of different Python types can be told   *)
(* apart and compared.  The emoji of the source's f-strings are written as *)
(* ASCII names between colons (":star:"), nothing else of a text changes.  *)
(***************************************************************************)
EXTENDS Integers, Sequences, FiniteSets, TLC

(***************************************************************************)
(* Bounds of the model.                                                    *)
(***************************************************************************)
\* limits tried by the host: -5, 0..MaxLimit and 150
MaxLimit == 101
\* longest repository reference built letter by letter from RefAlphabet
MaxRefLen == 3
\* longest list of repositories and of events the upstream answers with
MaxRepos == 2
MaxEvents == 1
MaxCloses == 3

(***************************************************************************)
(* Program constants.                                                      *)
(***************************************************************************)
RATE_LIMIT_WARNING_THRESHOLD == 100
DEFAULT_LIMIT == 30
PER_PAGE_MAX == 100
TOP_LANGUAGES == 5

(***************************************************************************)
(* Python values.                                                          *)
(***************************************************************************)
JNull == [t |-> "null"]
JStr(s) == [t |-> "str", s |-> s]
JInt(n) == [t |-> "int", n |-> n]
JBool(b) == [t |-> "bool", b |-> b]
JList(l) == [t |-> "list", l |-> l]
JDict(d) == [t |-> "dict", d |-> d]
\* what response.json() cannot decode
Undecodable == [t |-> "undecodable"]
\* the empty dict and the empty list
EmptyMap == [k \in {} |-> JNull]

\* "v is not None" where the code tests the value's truth
TruthyUnlessNone(v) == v.t /= "null"

\* bool(v): None, "", 0, False, [] and {} are falsy
Truthy(v) ==
    CASE v.t = "null" -> FALSE
      [] v.t = "str" -> v.s /= ""
      [] v.t = "int" -> v.n /= 0
      [] v.t = "bool" -> v.b
      [] v.t = "list" -> Len(v.l) > 0
      [] v.t = "dict" -> DOMAIN v.d /= {}

\* str(v), as an f-string formats a value
Str(v) ==
    CASE v.t = "null" -> "None"
      [] v.t = "str" -> v.s
      [] v.t = "int" -> ToString(v.n)
      [] v.t = "bool" -> IF v.b THEN "True" ELSE "False"

\* type(v).__name__
TypeName(v) == IF v.t = "null" THEN "NoneType" ELSE v.t

\* d.get(k, default) on a dict value
Get(d, k, default) == IF k \in DOMAIN d.d THEN d.d[k] ELSE default

\* a or b
Or(a, b) == IF Truthy(a) THEN a ELSE b

(***************************************************************************)
(* Python str operations.                                                  *)
(***************************************************************************)
CharAt(s, i) == SubSeq(s, i, i)

\* sub in s
Contains(s, sub) ==
    \E i \in 1..(Len(s) - Len(sub) + 1) : SubSeq(s, i, i + Len(sub) - 1) = sub

StartsWith(s, p) == Len(s) >= Len(p) /\ SubSeq(s, 1, Len(p)) = p

UpperCase == "ABCDEFGHIJKLMNOPQRSTUVWXYZ"
LowerCase == "abcdefghijklmnopqrstuvwxyz"

LowerChar(c) ==
    IF \E i \in 1..Len(UpperCase) : CharAt(UpperCase, i) = c
    THEN CharAt(LowerCase, CHOOSE i \in 1..Len(UpperCase) : CharAt(UpperCase, i) = c)
    ELSE c

\* s.lower()
RECURSIVE lower(_)
lower(s) ==
    IF Len(s) = 0 THEN "" ELSE LowerChar(CharAt(s, 1)) \o lower(SubSeq(s, 2, Len(s)))

\* index of the first occurrence of the character c in s (0: none)
Find(s, c) ==
    IF \E i \in 1..Len(s) : CharAt(s, i) = c
    THEN CHOOSE i \in 1..Len(s) : CharAt(s, i) = c /\ \A j \in 1..(i - 1) : CharAt(s, j) /= c
    ELSE 0

\* index of the last occurrence of the character c in s (0: none)
RFind(s, c) ==
    IF \E i \in 1..Len(s) : CharAt(s, i) = c
    THEN CHOOSE i \in 1..Len(s) : CharAt(s, i) = c /\ \A j \in (i + 1)..Len(s) : CharAt(s, j) /= c
    ELSE 0

Digits == "0123456789"
IsDigit(c) == \E i \in 1..Len(Digits) : CharAt(Digits, i) = c
DigitValue(c) == (CHOOSE i \in 1..Len(Digits) : CharAt(Digits, i) = c) - 1

\* the strings int() reads: an optional sign and decimal digits
IsIntLiteral(s) ==
    LET body == IF Len(s) > 0 /\ CharAt(s, 1) \in {"+", "-"} THEN SubSeq(s, 2, Len(s)) ELSE s
    IN  Len(body) > 0 /\ \A i \in 1..Len(body) : IsDigit(CharAt(body, i))

RECURSIVE DigitsValue(_)
DigitsValue(s) ==
    IF Len(s) = 0 THEN 0
    ELSE 10 * DigitsValue(SubSeq(s, 1, Len(s) - 1)) + DigitValue(CharAt(s, Len(s)))

\* int(s) of a string int() reads
StrToInt(s) ==
    IF CharAt(s, 1) = "-" THEN 0 - DigitsValue(SubSeq(s, 2, Len(s)))
    ELSE IF CharAt(s, 1) = "+" THEN DigitsValue(SubSeq(s, 2, Len(s)))
    ELSE DigitsValue(s)

\* "\n".join(lines)
RECURSIVE join(_)
join(lines) ==
    IF Len(lines) = 0 THEN ""
    ELSE IF Len(lines) = 1 THEN lines[1]
    ELSE lines[1] \o "\n" \o join(Tail(lines))

\* a per_page that is always the cap
MinIsTheCap(a, b) == b

\* min(a, b)
Min(a, b) == IF a <= b THEN a ELSE b

(***************************************************************************)
(* Exceptions: a class and a message; NoExc where none was raised.         *)
(***************************************************************************)
NoExc == [cls |-> "", msg |-> ""]
Exc(cls, msg) == [cls |-> cls, msg |-> msg]

\* the direct base class (Python builtins and httpx)
Base(cls) ==
    CASE cls = "JSONDecodeError" -> "ValueError"
      [] cls = "HTTPStatusError" -> "HTTPError"
      [] cls = "RequestError" -> "HTTPError"
      [] cls = "TransportError" -> "RequestError"
      [] cls \in {"ConnectError", "ReadTimeout"} -> "TransportError"
      [] cls = "KeyError" -> "LookupError"
      [] cls = "OverflowError" -> "ArithmeticError"
      [] cls = "Exception" -> "BaseException"
      [] cls = "BaseException" -> "object"
      [] OTHER -> "Exception"

\* isinstance(e, base): what an except clause naming base catches
RECURSIVE IsInstance(_, _)
IsInstance(cls, base) ==
    IF cls = base THEN TRUE
    ELSE IF cls = "object" THEN FALSE
    ELSE IsInstance(Base(cls), base)

Caught(e, classes) == \E b \in classes : IsInstance(e.cls, b)

(***************************************************************************)
(* What a call returns: a value, or the exception it raised; with the HTTP *)
(* requests it issued and the warnings it logged on the way.               *)
(***************************************************************************)
Returned(v, reqs, warns) ==
    [raised |-> FALSE, value |-> v, exc |-> NoExc, reqs |-> reqs, warnings |-> warns]
Raised(e, reqs, warns) ==
    [raised |-> TRUE, value |-> JNull, exc |-> e, reqs |-> reqs, warnings |-> warns]

(***************************************************************************)
(* The upstream's answer to one HTTP request, as httpx hands it over:      *)
(* client.request raises a transport failure, or returns a response with   *)
(* a status code, the body text, the headers and the body as decoded JSON. *)
(***************************************************************************)
TransportFailure(e) == [kind |-> "raise", exc |-> e]
Response(status, text, headers, body) ==
    [kind |-> "response", status_code |-> status, text |-> text, headers |-> headers, body |-> body]

\* headers.get(name): the headers are a mapping from the names present
HasHeader(net, name) == name \in DOMAIN net.headers

\* response.raise_for_status() raises HTTPStatusError unless the status is 2xx
IsSuccess(status) == 200 <= status /\ status < 300

(***************************************************************************)
(* GitHubClient.                                                           *)
(***************************************************************************)
BASE_URL == "https://api.github.com"

\* GitHubClient.__init__
GitHubClient(token, username) == [token |-> token, username |-> username, closed |-> FALSE]

\* a close that fails on a client closed before
CloseOnceOnly(self) ==
    IF self.closed
    THEN [self |-> self, exc |-> Exc("RuntimeError", "Cannot close a client that is closed.")]
    ELSE [self |-> [self EXCEPT !.closed = TRUE], exc |-> NoExc]

\* GitHubClient.close: self.client is there since __init__, and
\* httpx.Client.close() does nothing to a client that is closed
close(self) ==
    IF self.closed
    THEN [self |-> self, exc |-> NoExc]
    ELSE [self |-> [self EXCEPT !.closed = TRUE], exc |-> NoExc]

\* GitHubClient.__exit__: self.close(), then return False
__exit__(self, exc_val) ==
    [self |-> close(self).self, exc |-> close(self).exc, suppress |-> FALSE]

\* the branch with a test of the body that minds the letter case
StatusErrorCaseSensitive(net) ==
    IF net.status_code = 401
    THEN Exc("ValueError", "Authentication failed. Check your GITHUB_TOKEN.")
    ELSE IF net.status_code = 403
    THEN IF Contains(net.text, "rate limit")
         THEN LET reset_time == IF HasHeader(net, "X-RateLimit-Reset")
                                THEN net.headers["X-RateLimit-Reset"] ELSE "unknown"
              IN  Exc("ValueError", "GitHub API rate limit exceeded. Resets at: " \o reset_time)
         ELSE Exc("ValueError", "Access forbidden. Check token permissions (need 'repo' scope).")
    ELSE IF net.status_code = 404
    THEN Exc("ValueError", "Resource not found or not accessible.")
    ELSE Exc("ValueError", "GitHub API error: " \o net.text)

\* the branch without the rows of 401 and 404
StatusErrorWithoutRows(net) ==
    IF net.status_code = 403
    THEN IF Contains(lower(net.text), "rate limit")
         THEN LET reset_time == IF HasHeader(net, "X-RateLimit-Reset")
                                THEN net.headers["X-RateLimit-Reset"] ELSE "unknown"
              IN  Exc("ValueError", "GitHub API rate limit exceeded. Resets at: " \o reset_time)
         ELSE Exc("ValueError", "Access forbidden. Check token permissions (need 'repo' scope).")
    ELSE Exc("ValueError", "GitHub API error: " \o net.text)

\* the except httpx.HTTPStatusError branch of _api_request
StatusError(net) ==
    IF net.status_code = 401
    THEN Exc("ValueError", "Authentication failed. Check your GITHUB_TOKEN.")
    ELSE IF net.status_code = 403
    THEN IF Contains(lower(net.text), "rate limit")
         THEN LET reset_time == IF HasHeader(net, "X-RateLimit-Reset")
                                THEN net.headers["X-RateLimit-Reset"] ELSE "unknown"
              IN  Exc("ValueError", "GitHub API rate limit exceeded. Resets at: " \o reset_time)
         ELSE Exc("ValueError", "Access forbidden. Check token permissions (need 'repo' scope).")
    ELSE IF net.status_code = 404
    THEN Exc("ValueError", "Resource not found or not accessible.")
    ELSE Exc("ValueError", "GitHub API error: " \o net.text)

\* a warning at the threshold itself
LowRateWarningsInclusive(present, remaining) ==
    IF present /\ StrToInt(remaining) <= RATE_LIMIT_WARNING_THRESHOLD
    THEN <<"GitHub API rate limit low: " \o remaining \o " requests remaining">>
    ELSE <<>>

\* what logger.warning is called with after a 2xx response whose
\* X-RateLimit-Remaining header, when there and not empty, int() can read
LowRateWarnings(present, remaining) ==
    IF present /\ StrToInt(remaining) < RATE_LIMIT_WARNING_THRESHOLD
    THEN <<"GitHub API rate limit low: " \o remaining \o " requests remaining">>
    ELSE <<>>

\* GitHubClient._api_request: one request, answered by net
_api_request(method, endpoint, params, net) ==
    LET req == [method |-> method, url |-> BASE_URL \o endpoint, params |-> params]
    IN  IF net.kind = "raise" THEN Raised(net.exc, <<req>>, <<>>)
        ELSE IF ~IsSuccess(net.status_code) THEN Raised(StatusError(net), <<req>>, <<>>)
        ELSE LET present == HasHeader(net, "X-RateLimit-Remaining")
                            /\ net.headers["X-RateLimit-Remaining"] /= ""
                 remaining == IF present THEN net.headers["X-RateLimit-Remaining"] ELSE ""
             IN  IF present /\ ~IsIntLiteral(remaining)
                 THEN Raised(Exc("ValueError",
                                 "invalid literal for int() with base 10: '" \o remaining \o "'"),
                             <<req>>, <<>>)
                 ELSE LET warns == LowRateWarnings(present, remaining)
                      IN  IF net.body = Undecodable
                          THEN Raised(Exc("JSONDecodeError",
                                          "Expecting value: line 1 column 1 (char 0)"),
                                      <<req>>, warns)
                          ELSE Returned(net.body, <<req>>, warns)

\* a split at the last "/" instead of the first
ParseAtLastSlash(self, repo_name) ==
    IF Contains(repo_name, "/")
    THEN LET i == RFind(repo_name, "/")
         IN  <<SubSeq(repo_name, 1, i - 1), SubSeq(repo_name, i + 1, Len(repo_name))>>
    ELSE <<self.username, repo_name>>

\* GitHubClient._parse_repo_name: repo_name.split("/", 1), or the user's own repo
_parse_repo_name(self, repo_name) ==
    IF Contains(repo_name, "/")
    THEN LET i == Find(repo_name, "/")
         IN  <<SubSeq(repo_name, 1, i - 1), SubSeq(repo_name, i + 1, Len(repo_name))>>
    ELSE <<self.username, repo_name>>

\* GitHubClient.get_user_repos
GitHubClient_get_user_repos(self, per_page, sort, net) ==
    _api_request("GET", "/user/repos",
                 [per_page |-> Min(per_page, PER_PAGE_MAX), sort |-> sort,
                  affiliation |-> "owner,collaborator,organization_member"],
                 net)

\* int(v) of a JSON value: the number, or the class of the exception raised
IntOf(v) ==
    CASE v.t = "int" -> [ok |-> TRUE, n |-> v.n, cls |-> ""]
      [] v.t = "bool" -> [ok |-> TRUE, n |-> IF v.b THEN 1 ELSE 0, cls |-> ""]
      [] v.t = "float" /\ v.kind = "finite" -> [ok |-> TRUE, n |-> v.trunc, cls |-> ""]
      [] v.t = "float" /\ v.kind = "inf" -> [ok |-> FALSE, n |-> 0, cls |-> "OverflowError"]
      [] v.t = "float" /\ v.kind = "nan" -> [ok |-> FALSE, n |-> 0, cls |-> "ValueError"]
      [] v.t = "str" -> IF IsIntLiteral(v.s) THEN [ok |-> TRUE, n |-> StrToInt(v.s), cls |-> ""]
                        ELSE [ok |-> FALSE, n |-> 0, cls |-> "ValueError"]
      [] OTHER -> [ok |-> FALSE, n |-> 0, cls |-> "TypeError"]

\* the exception classes the loop over the language values skips
CoerceSkips == {"ValueError", "TypeError"}
\* an except clause that leaves out httpx.HTTPError
SwallowsValueErrorOnly == {"ValueError"}
\* the exception classes after which the language breakdown is left empty
LanguagesSwallowed == {"ValueError", "HTTPError"}

\* a dict whose items() keep the order of the document: the keys in order
JOrdDict(d, order) == [t |-> "dict", d |-> d, order |-> order]
EmptyDict == JOrdDict(EmptyMap, <<>>)

\* the coerced mapping of the loop over languages.items(), or the first
\* exception the loop does not skip
CoerceLanguages(languages) ==
    LET keys == languages.order
        Escapes(k) == /\ ~IntOf(languages.d[k]).ok
                      /\ ~Caught(Exc(IntOf(languages.d[k]).cls, ""), CoerceSkips)
        Kept(k) == IntOf(languages.d[k]).ok
        bad == {i \in 1..Len(keys) : Escapes(keys[i])}
        first == CHOOSE i \in bad : \A j \in bad : i <= j
        keptKeys == SelectSeq(keys, Kept)
    IN  IF bad /= {}
        THEN [ok |-> FALSE, value |-> EmptyDict,
              exc |-> Exc(IntOf(languages.d[keys[first]]).cls,
                          "cannot convert float infinity to integer")]
        ELSE [ok |-> TRUE,
              value |-> JOrdDict([k \in {keptKeys[i] : i \in 1..Len(keptKeys)} |->
                                     JInt(IntOf(languages.d[k]).n)],
                                 keptKeys),
              exc |-> NoExc]

\* repo_data["language_breakdown"] = breakdown
WithBreakdown(repo_data, breakdown) ==
    JDict([k \in DOMAIN repo_data.d \cup {"language_breakdown"} |->
              IF k = "language_breakdown" THEN breakdown ELSE repo_data.d[k]])

\* the assignment repo_data["language_breakdown"] = ..., which only a dict takes
SetBreakdown(repo_data, breakdown, reqs, warns) ==
    IF repo_data.t = "dict"
    THEN Returned(WithBreakdown(repo_data, breakdown), reqs, warns)
    ELSE Raised(Exc("TypeError",
                    "'" \o TypeName(repo_data) \o "' object does not support item assignment"),
                reqs, warns)

\* a repository request that is sent once more when it failed (and no
\* document around the languages when it did not)
AddLanguagesAfterRetry(first, second) ==
    IF first.raised THEN Raised(first.exc, first.reqs \o first.reqs, first.warnings)
    ELSE second

\* the try block of get_repo_details: first is the outcome of the request for
\* the repository, second that of the request for its languages, which is
\* issued only when the first returned
AddLanguages(first, second) ==
    IF first.raised THEN first
    ELSE LET reqs == first.reqs \o second.reqs
             warns == first.warnings \o second.warnings
             repo_data == first.value
         IN  IF second.raised
             THEN IF Caught(second.exc, LanguagesSwallowed)
                  THEN SetBreakdown(repo_data, EmptyDict, reqs, warns)
                  ELSE Raised(second.exc, reqs, warns)
             ELSE IF second.value.t = "dict"
             THEN LET coerced == CoerceLanguages(second.value)
                  IN  IF coerced.ok
                      THEN SetBreakdown(repo_data, coerced.value, reqs, warns)
                      ELSE IF Caught(coerced.exc, LanguagesSwallowed)
                      THEN SetBreakdown(repo_data, EmptyDict, reqs, warns)
                      ELSE Raised(coerced.exc, reqs, warns)
             ELSE SetBreakdown(repo_data, EmptyDict, reqs, warns)

\* the endpoint of a repository
RepoEndpoint(parsed) == "/repos/" \o parsed[1] \o "/" \o parsed[2]

\* GitHubClient.get_repo_details: the repository, then its languages
GitHubClient_get_repo_details(self, repo_name, net1, net2) ==
    AddLanguages(_api_request("GET", RepoEndpoint(_parse_repo_name(self, repo_name)),
                              EmptyMap, net1),
                 _api_request("GET", RepoEndpoint(_parse_repo_name(self, repo_name))
                                     \o "/languages",
                              EmptyMap, net2))

\* a search that sends the caller's query as it came
SearchCodeUnscoped(self, query, per_page, net) ==
    _api_request("GET", "/search/code",
                 [q |-> query, per_page |-> Min(per_page, PER_PAGE_MAX)], net)

\* GitHubClient.search_code
GitHubClient_search_code(self, query, per_page, net) ==
    _api_request("GET", "/search/code",
                 [q |-> query \o " user:" \o self.username,
                  per_page |-> Min(per_page, PER_PAGE_MAX)],
                 net)

\* GitHubClient.get_user_events
GitHubClient_get_user_events(self, per_page, net) ==
    _api_request("GET", "/users/" \o self.username \o "/events",
                 [per_page |-> Min(per_page, PER_PAGE_MAX)], net)

(***************************************************************************)
(* server.py: what the handlers share.                                     *)
(***************************************************************************)
TextContent(text) == [type |-> "text", text |-> text]

\* the module's global github before setup_github assigns it
None == JNull

NotInitialized == Raised(Exc("AssertionError", "GitHub client not initialized"), <<>>, <<>>)

\* v.get(...) or iteration over v's elements as dicts fails on what is no dict
NoGet(v, reqs, warns) ==
    Raised(Exc("AttributeError", "'" \o TypeName(v) \o "' object has no attribute 'get'"),
           reqs, warns)

AllDicts(l) == \A i \in 1..Len(l) : l[i].t = "dict"
FirstNonDict(l) == l[CHOOSE i \in 1..Len(l) : l[i].t /= "dict" /\ \A j \in 1..(i - 1) : l[j].t = "dict"]

\* two decimal digits at i and i + 1, read as a number within lo..hi
TwoDigits(s, i, lo, hi) ==
    /\ IsDigit(CharAt(s, i)) /\ IsDigit(CharAt(s, i + 1))
    /\ DigitsValue(SubSeq(s, i, i + 1)) >= lo
    /\ DigitsValue(SubSeq(s, i, i + 1)) <= hi

\* the timestamps datetime.fromisoformat(s.replace("Z", "+00:00")) reads, of
\* the shapes the upstream sends: YYYY-MM-DD, with THH:MM:SS and with a final Z
IsoDate(s) ==
    /\ Len(s) >= 10
    /\ \A i \in 1..4 : IsDigit(CharAt(s, i))
    /\ CharAt(s, 5) = "-" /\ TwoDigits(s, 6, 1, 12)
    /\ CharAt(s, 8) = "-" /\ TwoDigits(s, 9, 1, 31)
IsoTime(s) ==
    /\ Len(s) >= 19
    /\ CharAt(s, 11) = "T" /\ TwoDigits(s, 12, 0, 23)
    /\ CharAt(s, 14) = ":" /\ TwoDigits(s, 15, 0, 59)
    /\ CharAt(s, 17) = ":" /\ TwoDigits(s, 18, 0, 59)
fromisoformat_ok(s) ==
    \/ Len(s) = 10 /\ IsoDate(s)
    \/ Len(s) = 19 /\ IsoDate(s) /\ IsoTime(s)
    \/ Len(s) = 20 /\ IsoDate(s) /\ IsoTime(s) /\ CharAt(s, 20) = "Z"

\* strftime("%Y-%m-%d") and strftime("%Y-%m-%d %H:%M") of a timestamp read
strftime_date(s) == SubSeq(s, 1, 10)
strftime_minute(s) ==
    SubSeq(s, 1, 10) \o " " \o (IF Len(s) = 10 THEN "00:00" ELSE SubSeq(s, 12, 16))

\* sep.join(l) of a list of str values
RECURSIVE JoinStr(_, _)
JoinStr(sep, l) ==
    IF Len(l) = 0 THEN ""
    ELSE IF Len(l) = 1 THEN Str(l[1])
    ELSE Str(l[1]) \o sep \o JoinStr(sep, Tail(l))

(***************************************************************************)
(* server.get_my_repos                                                     *)
(***************************************************************************)
\* the lines of one repository
RepoLines(repo) ==
    LET name == Get(repo, "name", JStr("Unknown"))
        full_name == Get(repo, "full_name", name)
        description == Or(Get(repo, "description", None), JStr("No description"))
        stars == Get(repo, "stargazers_count", JInt(0))
        forks == Get(repo, "forks_count", JInt(0))
        language == Or(Get(repo, "language", None), JStr("Not specified"))
        visibility == IF Truthy(Get(repo, "private", JBool(FALSE))) THEN "Private" ELSE "Public"
        updated_at == Get(repo, "updated_at", JStr(""))
        updated_str == IF Truthy(updated_at)
                       THEN IF fromisoformat_ok(updated_at.s) THEN strftime_date(updated_at.s)
                            ELSE updated_at.s
                       ELSE "Unknown"
        html_url == Get(repo, "html_url", JStr(""))
    IN  << "\n## " \o Str(full_name),
           "**Description:** " \o Str(description),
           "**Stats:** :star: " \o Str(stars) \o " stars | :fork_and_knife: " \o Str(forks)
               \o " forks | :date: Updated " \o updated_str,
           "**Language:** " \o Str(language) \o " | **Visibility:** " \o visibility >>
        \o (IF Truthy(html_url) THEN << "**URL:** " \o Str(html_url) >> ELSE <<>>)

RECURSIVE AllRepoLines(_)
AllRepoLines(repos) ==
    IF Len(repos) = 0 THEN <<>> ELSE RepoLines(repos[1]) \o AllRepoLines(Tail(repos))

\* sum(repo.get(field, 0) for repo in repos)
RECURSIVE SumField(_, _)
SumField(repos, field) ==
    IF Len(repos) = 0 THEN 0
    ELSE Get(repos[1], field, JInt(0)).n + SumField(Tail(repos), field)

\* a handler that reports a failed call as an empty list
FormatReposHidingFailure(github, r) ==
    IF r.raised \/ ~Truthy(r.value)
    THEN Returned(<<TextContent("No repositories found.")>>, r.reqs, r.warnings)
    ELSE Returned(<<TextContent("# Repositories for " \o github.username \o "\n")>>,
                  r.reqs, r.warnings)

\* get_my_repos after the client's call, whose outcome is r
FormatRepos(github, r) ==
    LET repos == r.value
    IN  IF r.raised THEN r
        ELSE IF ~Truthy(repos)
        THEN Returned(<<TextContent("No repositories found.")>>, r.reqs, r.warnings)
        ELSE IF repos.t /= "list" THEN NoGet(JStr(""), r.reqs, r.warnings)
        ELSE IF ~AllDicts(repos.l) THEN NoGet(FirstNonDict(repos.l), r.reqs, r.warnings)
        ELSE LET result_lines ==
                     << "# Repositories for " \o github.username \o "\n",
                        "Found " \o ToString(Len(repos.l))
                            \o " repositories (sorted by recently updated)\n" >>
                     \o AllRepoLines(repos.l)
                     \o << "\n**Total stars across all repositories:** "
                           \o ToString(SumField(repos.l, "stargazers_count")) >>
             IN  Returned(<<TextContent(join(result_lines))>>, r.reqs, r.warnings)

get_my_repos(github, limit, net) ==
    IF github = None THEN NotInitialized
    ELSE FormatRepos(github, GitHubClient_get_user_repos(github, limit, "updated", net))

(***************************************************************************)
(* server.get_repo_details                                                 *)
(***************************************************************************)
\* sorted(items, key=bytes, reverse=True): a stable sort, so that languages
\* of equal size keep the order of the mapping
InsertDesc(sorted, k, d) ==
    LET pos == Cardinality({i \in 1..Len(sorted) : d[sorted[i]].n >= d[k].n})
    IN  SubSeq(sorted, 1, pos) \o <<k>> \o SubSeq(sorted, pos + 1, Len(sorted))

RECURSIVE SortDesc(_, _)
SortDesc(keys, d) ==
    IF Len(keys) = 0 THEN <<>>
    ELSE InsertDesc(SortDesc(SubSeq(keys, 1, Len(keys) - 1), d), keys[Len(keys)], d)

RECURSIVE SumBytes(_, _)
SumBytes(keys, d) ==
    IF Len(keys) = 0 THEN 0 ELSE d[keys[1]].n + SumBytes(Tail(keys), d)

\* f"{bytes_count / total_bytes * 100:.1f}" for 0 <= bytes_count <= total_bytes,
\* in tenths of a percent rounded to the nearest (the samples have no tie)
PercentTenths(bytes_count, total_bytes) ==
    IF total_bytes > 0 THEN (2000 * bytes_count + total_bytes) \div (2 * total_bytes) ELSE 0
FormatTenths(tenths) == ToString(tenths \div 10) \o "." \o ToString(tenths % 10)

RECURSIVE LanguageLines(_, _, _)
LanguageLines(langs, d, total_bytes) ==
    IF Len(langs) = 0 THEN <<>>
    ELSE << "- " \o langs[1] \o ": "
            \o FormatTenths(PercentTenths(d[langs[1]].n, total_bytes)) \o "%" >>
         \o LanguageLines(Tail(langs), d, total_bytes)

\* the "## Language Breakdown" section
BreakdownLines(language_breakdown) ==
    IF ~Truthy(language_breakdown) THEN <<>>
    ELSE LET d == language_breakdown.d
             sorted_langs == SortDesc(language_breakdown.order, d)
             total_bytes == SumBytes(language_breakdown.order, d)
         IN  << "\n## Language Breakdown" >>
             \o LanguageLines(SubSeq(sorted_langs, 1, Min(TOP_LANGUAGES, Len(sorted_langs))),
                              d, total_bytes)
             \o (IF Len(sorted_langs) > TOP_LANGUAGES
                 THEN << "- ...and " \o ToString(Len(sorted_langs) - TOP_LANGUAGES) \o " more" >>
                 ELSE <<>>)

\* the text of the repository document
RepoDetailLines(repo, repo_name) ==
    LET full_name == Get(repo, "full_name", JStr(repo_name))
        description == Or(Get(repo, "description", None), JStr("No description provided"))
        stars == Get(repo, "stargazers_count", JInt(0))
        forks == Get(repo, "forks_count", JInt(0))
        watchers == Get(repo, "watchers_count", JInt(0))
        open_issues == Get(repo, "open_issues_count", JInt(0))
        language == Or(Get(repo, "language", None), JStr("Not specified"))
        visibility == IF Truthy(Get(repo, "private", JBool(FALSE))) THEN "Private" ELSE "Public"
        created_at == Get(repo, "created_at", JStr(""))
        updated_at == Get(repo, "updated_at", JStr(""))
        default_branch == Get(repo, "default_branch", JStr("main"))
        \* one try around both dates: a date that does not parse leaves both raw
        parsed == /\ (Truthy(created_at) => fromisoformat_ok(created_at.s))
                  /\ (Truthy(updated_at) => fromisoformat_ok(updated_at.s))
        created_str == IF ~Truthy(created_at) THEN "Unknown"
                       ELSE IF parsed THEN strftime_date(created_at.s) ELSE created_at.s
        updated_str == IF ~Truthy(updated_at) THEN "Unknown"
                       ELSE IF parsed THEN strftime_date(updated_at.s) ELSE updated_at.s
        topics == Get(repo, "topics", JList(<<>>))
        html_url == Get(repo, "html_url", JStr(""))
        homepage == Get(repo, "homepage", None)
        license_info == Get(repo, "license", None)
    IN  << "# " \o Str(full_name) \o "\n",
           "**Description:** " \o Str(description) \o "\n",
           "## Statistics",
           "- :star: Stars: " \o Str(stars),
           "- :fork_and_knife: Forks: " \o Str(forks),
           "- :eyes: Watchers: " \o Str(watchers),
           "- :bug: Open Issues: " \o Str(open_issues),
           "\n## Details",
           "- **Primary Language:** " \o Str(language),
           "- **Visibility:** " \o visibility,
           "- **Default Branch:** " \o Str(default_branch),
           "- **Created:** " \o created_str,
           "- **Last Updated:** " \o updated_str >>
        \o BreakdownLines(Get(repo, "language_breakdown", EmptyDict))
        \o (IF Truthy(topics) THEN << "\n## Topics", JoinStr(", ", topics.l) >> ELSE <<>>)
        \o << "\n## Links" >>
        \o (IF Truthy(html_url) THEN << "- **Repository:** " \o Str(html_url) >> ELSE <<>>)
        \o (IF Truthy(homepage) THEN << "- **Homepage:** " \o Str(homepage) >> ELSE <<>>)
        \o (IF Truthy(license_info)
            THEN << "\n**License:** " \o Str(Get(license_info, "name", JStr("Unknown"))) >>
            ELSE <<>>)

\* get_repo_details after the client's call, whose outcome is r
FormatRepoDetails(repo_name, r) ==
    IF r.raised THEN r
    ELSE Returned(<<TextContent(join(RepoDetailLines(r.value, repo_name)))>>,
                  r.reqs, r.warnings)

get_repo_details(github, repo_name, net1, net2) ==
    IF github = None THEN NotInitialized
    ELSE FormatRepoDetails(repo_name,
                           GitHubClient_get_repo_details(github, repo_name, net1, net2))

(***************************************************************************)
(* server.search_my_code                                                   *)
(***************************************************************************)
\* the lines of one match
ItemLines(item) ==
    LET repository == Get(item, "repository", JDict(EmptyMap))
        repo_name == Get(repository, "full_name", JStr("Unknown"))
        file_path == Get(item, "path", JStr("Unknown"))
        html_url == Get(item, "html_url", JStr(""))
    IN  << "\n## " \o Str(repo_name) \o ": " \o Str(file_path) >>
        \o (IF Truthy(html_url) THEN << "**URL:** " \o Str(html_url) >> ELSE <<>>)

\* the matches listed last to first
RECURSIVE AllItemLinesReversed(_)
AllItemLinesReversed(items) ==
    IF Len(items) = 0 THEN <<>> ELSE AllItemLinesReversed(Tail(items)) \o ItemLines(items[1])

RECURSIVE AllItemLines(_)
AllItemLines(items) ==
    IF Len(items) = 0 THEN <<>> ELSE ItemLines(items[1]) \o AllItemLines(Tail(items))

\* search_my_code after the client's call, whose outcome is r
FormatSearch(query, r) ==
    LET results == r.value
        total_count == Get(results, "total_count", JInt(0))
        items == Get(results, "items", JList(<<>>))
    IN  IF r.raised THEN r
        ELSE IF results.t /= "dict" THEN NoGet(results, r.reqs, r.warnings)
        ELSE IF total_count.t = "int" /\ total_count.n = 0
        THEN Returned(<<TextContent("No code matches found for query: '" \o query \o "'")>>,
                      r.reqs, r.warnings)
        ELSE IF ~AllDicts(items.l) THEN NoGet(FirstNonDict(items.l), r.reqs, r.warnings)
        ELSE LET result_lines ==
                     << "# Code Search Results for '" \o query \o "'\n",
                        "Found " \o Str(total_count) \o " matches (showing first "
                            \o ToString(Len(items.l)) \o ")\n" >>
                     \o AllItemLines(items.l)
             IN  Returned(<<TextContent(join(result_lines))>>, r.reqs, r.warnings)

search_my_code(github, query, limit, net) ==
    IF github = None THEN NotInitialized
    ELSE FormatSearch(query, GitHubClient_search_code(github, query, limit, net))

(***************************************************************************)
(* server.get_recent_activity                                              *)
(***************************************************************************)
\* ref.split("/")[-1] if "/" in ref else ref
BranchOf(ref) == IF Contains(ref, "/") THEN SubSeq(ref, RFind(ref, "/") + 1, Len(ref)) ELSE ref

\* the lines of one event
EventLines(event) ==
    LET event_type == Str(Get(event, "type", JStr("Unknown")))
        repo_info == Get(event, "repo", JDict(EmptyMap))
        repo_name == Str(Get(repo_info, "name", JStr("Unknown")))
        created_at == Get(event, "created_at", JStr("")).s
        time_str == IF fromisoformat_ok(created_at) THEN strftime_minute(created_at)
                    ELSE created_at
        payload == Get(event, "payload", JDict(EmptyMap))
        action == Str(Get(payload, "action", JStr("unknown")))
    IN  (CASE event_type = "PushEvent" ->
                LET commits == Get(payload, "commits", JList(<<>>))
                    commits_count == Len(commits.l)
                    ref == Get(payload, "ref", JStr("unknown branch")).s
                    branch == BranchOf(ref)
                IN  << "\n:memo: **Push** to " \o repo_name \o " (" \o branch \o ") - "
                       \o ToString(commits_count) \o " commit(s)" >>
           [] event_type = "PullRequestEvent" ->
                LET pr == Get(payload, "pull_request", JDict(EmptyMap))
                    pr_title == Str(Get(pr, "title", JStr("Unknown PR")))
                IN  << "\n:twisted_rightwards_arrows: **Pull Request** " \o action
                       \o " in " \o repo_name,
                       "   " \o pr_title >>
           [] event_type = "IssuesEvent" ->
                LET issue == Get(payload, "issue", JDict(EmptyMap))
                    issue_title == Str(Get(issue, "title", JStr("Unknown Issue")))
                IN  << "\n:bug: **Issue** " \o action \o " in " \o repo_name,
                       "   " \o issue_title >>
           [] event_type = "CreateEvent" ->
                << "\n:sparkles: **Created** "
                   \o Str(Get(payload, "ref_type", JStr("unknown"))) \o " in " \o repo_name >>
           [] event_type = "WatchEvent" -> << "\n:star: **Starred** " \o repo_name >>
           [] event_type = "ForkEvent" -> << "\n:fork_and_knife: **Forked** " \o repo_name >>
           [] OTHER -> << "\n:pushpin: **" \o event_type \o "** in " \o repo_name >>)
        \o << "   *" \o time_str \o "*" >>

RECURSIVE AllEventLines(_)
AllEventLines(events) ==
    IF Len(events) = 0 THEN <<>> ELSE EventLines(events[1]) \o AllEventLines(Tail(events))

\* get_recent_activity after the client's call, whose outcome is r
FormatActivity(github, r) ==
    LET events == r.value
    IN  IF r.raised THEN r
        ELSE IF ~Truthy(events)
        THEN Returned(<<TextContent("No recent activity found.")>>, r.reqs, r.warnings)
        ELSE IF events.t /= "list" THEN NoGet(JStr(""), r.reqs, r.warnings)
        ELSE IF ~AllDicts(events.l) THEN NoGet(FirstNonDict(events.l), r.reqs, r.warnings)
        ELSE LET result_lines ==
                     << "# Recent Activity for " \o github.username \o "\n",
                        "Showing last " \o ToString(Len(events.l)) \o " events\n" >>
                     \o AllEventLines(events.l)
             IN  Returned(<<TextContent(join(result_lines))>>, r.reqs, r.warnings)

get_recent_activity(github, limit, net) ==
    IF github = None THEN NotInitialized
    ELSE FormatActivity(github, GitHubClient_get_user_events(github, limit, net))

(***************************************************************************)
(* server.call_tool                                                        *)
(***************************************************************************)
\* str(e): a KeyError shows the repr of its key
ExcStr(e) == IF e.cls = "KeyError" THEN "'" \o e.msg \o "'" ELSE e.msg

\* a lookup that falls back on "" instead of raising
SubscriptOrEmpty(arguments, key) == [ok |-> TRUE, v |-> Get(arguments, key, JStr(""))]

\* arguments[key]: the value, or the KeyError of a key that is not there
Subscript(arguments, key) ==
    IF key \in DOMAIN arguments.d THEN [ok |-> TRUE, v |-> arguments.d[key]]
    ELSE [ok |-> FALSE, v |-> JStr(key)]

\* an unknown tool reported without its name
UnknownToolUnnamed(name) == Raised(Exc("ValueError", "Unknown tool"), <<>>, <<>>)

\* raise ValueError(f"Unknown tool: {name}")
UnknownTool(name) == Raised(Exc("ValueError", "Unknown tool: " \o name), <<>>, <<>>)

\* the try block: the dispatch on the tool name
Dispatch(github, name, arguments, net1, net2) ==
    IF name = "get_my_repos"
    THEN get_my_repos(github, Get(arguments, "limit", JInt(DEFAULT_LIMIT)).n, net1)
    ELSE IF name = "get_repo_details"
    THEN IF ~Subscript(arguments, "repo_name").ok
         THEN Raised(Exc("KeyError", "repo_name"), <<>>, <<>>)
         ELSE get_repo_details(github, Subscript(arguments, "repo_name").v.s, net1, net2)
    ELSE IF name = "search_my_code"
    THEN IF ~Subscript(arguments, "query").ok
         THEN Raised(Exc("KeyError", "query"), <<>>, <<>>)
         ELSE search_my_code(github, Subscript(arguments, "query").v.s,
                             Get(arguments, "limit", JInt(DEFAULT_LIMIT)).n, net1)
    ELSE IF name = "get_recent_activity"
    THEN get_recent_activity(github, Get(arguments, "limit", JInt(DEFAULT_LIMIT)).n, net1)
    ELSE UnknownTool(name)

\* an except clause that names ValueError alone
CatchesValueErrorOnly == {"ValueError"}
\* the classes the except clause of call_tool names
CallToolCatches == {"Exception"}

\* the end of call_tool, out being the outcome of the try block: what it
\* returns to the host, or the exception that escapes it
Finish(name, out) ==
    IF ~out.raised
    THEN [returned |-> TRUE, result |-> out.value, escaped |-> NoExc,
          reqs |-> out.reqs, warnings |-> out.warnings, errors |-> <<>>]
    ELSE IF Caught(out.exc, CallToolCatches)
    THEN [returned |-> TRUE,
          result |-> <<TextContent("Error: " \o ExcStr(out.exc))>>,
          escaped |-> NoExc, reqs |-> out.reqs, warnings |-> out.warnings,
          errors |-> <<"Error calling tool " \o name \o ": " \o ExcStr(out.exc)>>]
    ELSE [returned |-> FALSE, result |-> <<>>, escaped |-> out.exc,
          reqs |-> out.reqs, warnings |-> out.warnings, errors |-> <<>>]

call_tool(github, name, arguments, net1, net2) ==
    Finish(name, Dispatch(github, name, arguments, net1, net2))

(***************************************************************************)
(* The documents the upstream answers with.                                *)
(***************************************************************************)
RepoA ==
    JDict([name |-> JStr("test-repo"), full_name |-> JStr("testuser/test-repo"),
           description |-> JStr("A test repository"), stargazers_count |-> JInt(5),
           forks_count |-> JInt(2), language |-> JStr("Python"), private |-> JBool(FALSE),
           updated_at |-> JStr("2024-01-01T00:00:00Z"),
           html_url |-> JStr("https://github.com/testuser/test-repo")])
RepoB ==
    JDict([name |-> JStr("secret"), full_name |-> JStr("octocat/secret"),
           description |-> JNull, stargazers_count |-> JInt(7), forks_count |-> JInt(1),
           language |-> JNull, private |-> JBool(TRUE), updated_at |-> JStr("not-a-date")])

\* the lists of at most n elements of S
RECURSIVE ListsUpTo(_, _)
ListsUpTo(S, n) ==
    IF n = 0 THEN {<<>>}
    ELSE ListsUpTo(S, n - 1)
         \cup {Append(l, x) : l \in {m \in ListsUpTo(S, n - 1) : Len(m) = n - 1}, x \in S}

\* a body of the wrong shape: the upstream's error document, and null
Malformed == {JDict([message |-> JStr("Bad credentials")]), JNull}

RepoListBodies == {JList(l) : l \in ListsUpTo({RepoA, RepoB}, MaxRepos)} \cup Malformed \cup {Undecodable}

DetailA ==
    JDict([full_name |-> JStr("testuser/test-repo"), description |-> JStr("Test repository"),
           stargazers_count |-> JInt(10), forks_count |-> JInt(5), watchers_count |-> JInt(3),
           open_issues_count |-> JInt(2), language |-> JStr("Python"), private |-> JBool(FALSE),
           created_at |-> JStr("2024-01-01T00:00:00Z"),
           updated_at |-> JStr("2024-01-02T00:00:00Z"), default_branch |-> JStr("main"),
           topics |-> JList(<<JStr("mcp"), JStr("testing")>>),
           html_url |-> JStr("https://github.com/testuser/test-repo")])
DetailB ==
    JDict([name |-> JStr("secret"), private |-> JBool(TRUE), description |-> JNull,
           created_at |-> JStr("2024-01-01T00:00:00Z"), updated_at |-> JStr("yesterday"),
           homepage |-> JStr("https://example.org"),
           license |-> JDict([name |-> JStr("MIT License")])])
RepoDetailBodies == {DetailA, DetailB, JDict(EmptyMap), JNull, Undecodable}

JFloat(trunc, kind) == [t |-> "float", trunc |-> trunc, kind |-> kind]

\* a language mapping in the order of the document
Languages(pairs) ==
    JOrdDict([k \in {pairs[i][1] : i \in 1..Len(pairs)} |->
                 pairs[CHOOSE i \in 1..Len(pairs) : pairs[i][1] = k][2]],
             [i \in 1..Len(pairs) |-> pairs[i][1]])

LanguageMappings ==
    { Languages(<< <<"Python", JInt(1000)>>, <<"JavaScript", JInt(500)>> >>),
      Languages(<<>>),
      Languages(<< <<"Python", JStr("abc")>>, <<"Go", JInt(10)>>, <<"C", JNull>> >>),
      Languages(<< <<"Go", JInt(10)>>, <<"C", JFloat(0, "inf")>> >>),
      Languages(<< <<"Python", JInt(0)>> >>),
      Languages(<< <<"Python", JStr("12")>>, <<"Go", JFloat(10, "finite")>>,
                   <<"C", JFloat(0, "nan")>> >>),
      Languages(<< <<"A", JInt(10)>>, <<"B", JInt(60)>>, <<"C", JInt(30)>>, <<"D", JInt(30)>>,
                   <<"E", JInt(20)>>, <<"F", JInt(50)>> >>) }
NonMappings == {JList(<<>>), JList(<<JStr("Python")>>), JNull, JStr("Python")}
LanguageBodies == LanguageMappings \cup NonMappings \cup {Undecodable}

ItemA ==
    JDict([repository |-> JDict([full_name |-> JStr("testuser/repo1")]),
           path |-> JStr("src/main.py"),
           html_url |-> JStr("https://github.com/testuser/repo1/blob/main/src/main.py")])
ItemB == JDict([path |-> JStr("README.md")])
SearchBodies ==
    { JDict([total_count |-> JInt(0), items |-> JList(<<>>)]),
      JDict([total_count |-> JInt(2), items |-> JList(<<ItemA>>)]),
      JDict([total_count |-> JInt(2), items |-> JList(<<ItemA, ItemB>>)]),
      JDict(EmptyMap), JList(<<>>), JNull, Undecodable }

Event(type, created_at, payload) ==
    JDict([type |-> JStr(type), repo |-> JDict([name |-> JStr("testuser/test-repo")]),
           created_at |-> JStr(created_at), payload |-> JDict(payload)])
SampleEvents ==
    { Event("PushEvent", "2024-01-01T12:00:00Z",
            [ref |-> JStr("refs/heads/main"),
             commits |-> JList(<<JDict([sha |-> JStr("abc123")])>>)]),
      Event("PushEvent", "2024-01-01T12:00:00Z", [ref |-> JStr("main")]),
      Event("PullRequestEvent", "2024-01-01T12:00:00Z",
            [action |-> JStr("opened"),
             pull_request |-> JDict([title |-> JStr("Add new feature"), number |-> JInt(42)])]),
      Event("IssuesEvent", "not-a-date",
            [action |-> JStr("closed"),
             issue |-> JDict([title |-> JStr("A bug"), number |-> JInt(7)])]),
      Event("CreateEvent", "2024-01-01T12:00:00Z",
            [ref_type |-> JStr("branch"), ref |-> JStr("dev")]),
      Event("WatchEvent", "2024-01-01T12:00:00Z", [action |-> JStr("started")]),
      Event("ForkEvent", "2024-01-01T12:00:00Z",
            [forkee |-> JDict([full_name |-> JStr("other/test-repo")])]),
      Event("ReleaseEvent", "2024-01-01T12:00:00Z", EmptyMap) }
EventListBodies == {JList(l) : l \in ListsUpTo(SampleEvents, MaxEvents)} \cup Malformed \cup {Undecodable}

(***************************************************************************)
(* The upstream's answers to one request.                                  *)
(***************************************************************************)
NoHeaders == EmptyMap
Header(name, value) == [k \in {name} |-> value]

ErrorTexts ==
    {"", "Bad credentials", "API rate limit exceeded for user", "You hit a secondary RATE LIMIT",
     "Rate Limit", "rate-limit", "Resource not accessible by integration", "Not Found"}
ResetHeaders == {NoHeaders, Header("X-RateLimit-Reset", "1234567890")}
ErrorStatuses == {301, 400, 401, 403, 404, 422, 500}

\* every failing response of the samples
StatusFailures ==
    {Response(st, text, h, JNull) : st \in ErrorStatuses, text \in ErrorTexts, h \in ResetHeaders}

TransportFailures ==
    { TransportFailure(Exc("ConnectError", "All connection attempts failed")),
      TransportFailure(Exc("ReadTimeout", "The read operation timed out")) }

\* the failures a dispatch meets: one of each row of the status table, a
\* redirect, and the transport failures
DispatchFailures ==
    { Response(401, "Bad credentials", NoHeaders, JNull),
      Response(403, "API rate limit exceeded for user",
               Header("X-RateLimit-Reset", "1234567890"), JNull),
      Response(403, "You hit a secondary RATE LIMIT", NoHeaders, JNull),
      Response(403, "Resource not accessible by integration", NoHeaders, JNull),
      Response(404, "Not Found", NoHeaders, JNull),
      Response(500, "Server Error", NoHeaders, JNull),
      Response(301, "", NoHeaders, JNull) } \cup TransportFailures

RemainingHeaders ==
    {NoHeaders} \cup {Header("X-RateLimit-Remaining", v) : v \in {"", "0", "50", "99", "100", "5000", "abc"}}
DispatchHeaders ==
    {NoHeaders, Header("X-RateLimit-Remaining", "50"), Header("X-RateLimit-Remaining", "abc")}

\* the 2xx responses carrying one of the bodies
Successes(headers, bodies) == {Response(200, "", h, b) : h \in headers, b \in bodies}

\* the bodies a tool's first request may be answered with, and the one that
\* also comes under each of the rate-limit headers
BodiesOf(name) ==
    CASE name = "get_my_repos" -> RepoListBodies
      [] name = "get_repo_details" -> RepoDetailBodies
      [] name = "search_my_code" -> SearchBodies
      [] name = "get_recent_activity" -> EventListBodies
      [] OTHER -> {}
BodyUnderHeaders(name) ==
    CASE name = "get_my_repos" -> {JList(<<RepoA>>)}
      [] name = "get_repo_details" -> {DetailA}
      [] name = "search_my_code" -> {JDict([total_count |-> JInt(2), items |-> JList(<<ItemA>>)])}
      [] name = "get_recent_activity" -> {JList(<<>>)}
      [] OTHER -> {}

\* what the upstream may answer to the first and to the second request of a dispatch
FirstAnswers(name) ==
    DispatchFailures
    \cup Successes({NoHeaders}, BodiesOf(name))
    \cup Successes(DispatchHeaders, BodyUnderHeaders(name))
NoAnswer == [kind |-> "none"]
SecondAnswers(name, net1) ==
    IF name = "get_repo_details" /\ net1.kind = "response" /\ IsSuccess(net1.status_code)
    THEN DispatchFailures
         \cup Successes({NoHeaders}, LanguageBodies)
         \cup Successes(DispatchHeaders, {Languages(<< <<"Python", JInt(1000)>> >>)})
    ELSE {NoAnswer}

(***************************************************************************)
(* What the host sends.                                                    *)
(***************************************************************************)
KnownTools == {"get_my_repos", "get_repo_details", "search_my_code", "get_recent_activity"}
UnknownTools == {"unknown_tool", "", "GET_MY_REPOS", "get_my_repo"}
ToolNames == KnownTools \cup UnknownTools

Absent == [t |-> "absent"]

\* the arguments mapping holding the keys that are given
Arguments(limit, repo_name, query) ==
    LET given == [limit |-> limit, repo_name |-> repo_name, query |-> query]
    IN  JDict([k \in {x \in DOMAIN given : given[x] /= Absent} |-> given[k]])

Limits == {-5, 150} \cup 0..MaxLimit
LimitChoices == {Absent} \cup {JInt(n) : n \in Limits}
RepoNameChoices == {Absent} \cup {JStr(s) : s \in {"", "test-repo", "octocat/hello-world", "a/b/c"}}
QueryChoices == {Absent, JStr("test query")}

\* the arguments a host sends with a tool: any of the properties the tool's
\* inputSchema declares, each given or not
ArgumentsOf(name) ==
    CASE name = "get_my_repos" -> {Arguments(l, Absent, Absent) : l \in LimitChoices}
      [] name = "get_repo_details" -> {Arguments(Absent, r, Absent) : r \in RepoNameChoices}
      [] name = "search_my_code" -> {Arguments(l, Absent, q) : l \in LimitChoices, q \in QueryChoices}
      [] name = "get_recent_activity" -> {Arguments(l, Absent, Absent) : l \in LimitChoices}
      [] OTHER -> {Arguments(Absent, Absent, Absent), Arguments(JInt(10), JStr("test"), Absent)}

(***************************************************************************)
(* The state.                                                              *)
(***************************************************************************)
VARIABLES
    env,        \* os.environ: GITHUB_TOKEN and GITHUB_USERNAME, a str or Absent
    phase,      \* main(): "boot", then "serving" or "exited"
    github,     \* the module's global client: None, or the GitHubClient
    pc,         \* the dispatch: "idle", "called" (a tool call is in), "returned"
    request,    \* the tool call in progress: its name and arguments
    result,     \* what call_tool returned to the host
    escaped,    \* the exception that left call_tool (NoExc: none)
    requests,   \* the HTTP requests the dispatch issued, in order
    warnings,   \* the warnings the dispatch logged
    upstream,   \* the upstream's answers to the dispatch's requests
    unit        \* a function applied on its own: its input and its output

vars == <<env, phase, github, pc, request, result, escaped, requests, warnings, upstream, unit>>
serverVars == <<env, phase, github, pc, request, result, escaped, requests, warnings, upstream>>

NoRequest == [name |-> "", arguments |-> JDict(EmptyMap)]
NoUnit == [op |-> "none"]

Tokens == {Absent, JStr(""), JStr("ghp_test_token")}
Usernames == {Absent, JStr("testuser")}

ServerInit ==
    /\ env \in [GITHUB_TOKEN : Tokens, GITHUB_USERNAME : Usernames]
    /\ phase = "boot"
    /\ github = None
    /\ pc = "idle"
    /\ request = NoRequest
    /\ result = <<>>
    /\ escaped = NoExc
    /\ requests = <<>>
    /\ warnings = <<>>
    /\ upstream = <<>>

Init == ServerInit /\ unit = NoUnit

\* a start that builds the client whether or not there is a token
SetupWithoutToken ==
    /\ phase = "boot" /\ pc = "idle"
    /\ github' = GitHubClient(IF env.GITHUB_TOKEN = Absent THEN "" ELSE env.GITHUB_TOKEN.s,
                              IF env.GITHUB_USERNAME = Absent THEN "jw1"
                              ELSE env.GITHUB_USERNAME.s)
    /\ phase' = "serving"
    /\ UNCHANGED <<env, pc, request, result, escaped, requests, warnings, upstream, unit>>

\* setup_github, as main() runs it: without a token main() returns
setup_github ==
    /\ phase = "boot" /\ pc = "idle"
    /\ LET token == env.GITHUB_TOKEN
           username == IF env.GITHUB_USERNAME = Absent THEN "jw1" ELSE env.GITHUB_USERNAME.s
       IN  IF token = Absent \/ token.s = ""
           THEN /\ phase' = "exited"
                /\ github' = github
           ELSE /\ github' = GitHubClient(token.s, username)
                /\ phase' = "serving"
    /\ UNCHANGED <<env, pc, request, result, escaped, requests, warnings, upstream, unit>>

\* the host calls a tool: through the server once it serves, or call_tool is
\* called as a function before setup_github ran
HostCall(name, arguments) ==
    /\ pc = "idle" /\ phase \in {"boot", "serving"}
    /\ pc' = "called"
    /\ request' = [name |-> name, arguments |-> arguments]
    /\ UNCHANGED <<env, phase, github, result, escaped, requests, warnings, upstream, unit>>

\* what a run of call_tool leaves: out is what it gave, nets the answers
Deliver(out, nets) ==
    /\ result' = out.result
    /\ escaped' = out.escaped
    /\ requests' = out.reqs
    /\ warnings' = out.warnings
    \* the answers the dispatch consumed: one for each request it issued
    /\ upstream' = SubSeq(nets, 1, Len(out.reqs))

\* call_tool runs, the upstream answering net1 and then net2
CallTool(net1, net2) ==
    /\ pc = "called"
    /\ Deliver(call_tool(github, request.name, request.arguments, net1, net2), <<net1, net2>>)
    /\ pc' = "returned"
    /\ UNCHANGED <<env, phase, github, request, unit>>

\* the host takes the result; nothing of the dispatch is kept
HostReceive ==
    /\ pc = "returned"
    /\ pc' = "idle"
    /\ request' = NoRequest
    /\ result' = <<>>
    /\ escaped' = NoExc
    /\ requests' = <<>>
    /\ warnings' = <<>>
    /\ upstream' = <<>>
    /\ UNCHANGED <<env, phase, github, unit>>

\* server.run returns: main() ends
ServerStop ==
    /\ phase = "serving" /\ pc = "idle"
    /\ phase' = "exited"
    /\ UNCHANGED <<env, github, pc, request, result, escaped, requests, warnings, upstream, unit>>

Next ==
    \/ setup_github
    \/ \E name \in ToolNames : \E arguments \in ArgumentsOf(name) : HostCall(name, arguments)
    \/ \E net1 \in (IF github = None THEN {NoAnswer} ELSE FirstAnswers(request.name)) :
         \E net2 \in SecondAnswers(request.name, net1) : CallTool(net1, net2)
    \/ HostReceive
    \/ ServerStop

Spec == Init /\ [][Next]_vars

(***************************************************************************)
(* The client's functions applied on their own: unit holds the arguments   *)
(* of one application and, once it ran, what it gave.                      *)
(***************************************************************************)
RefAlphabet == {"a", "b", "/"}

\* the strings of at most n letters of the alphabet
RECURSIVE StringsUpTo(_, _)
StringsUpTo(alphabet, n) ==
    IF n = 0 THEN {""}
    ELSE StringsUpTo(alphabet, n - 1)
         \cup {s \o c : s \in StringsUpTo(alphabet, n - 1), c \in alphabet}

RepoRefs ==
    StringsUpTo(RefAlphabet, MaxRefLen)
    \cup {"test-repo", "octocat/hello-world", "owner/repo/extra", "octocat/"}

Clients == {GitHubClient("ghp_test_token", u) : u \in {"testuser", "jw1"}}

NoOutcome == Returned(JNull, <<>>, <<>>)

ParseInputs ==
    {[op |-> "_parse_repo_name", self |-> c, repo_name |-> r, done |-> FALSE, out |-> <<>>] :
        c \in Clients, r \in RepoRefs}

\* the answers to a request on its own: every failing response, the transport
\* failures, and the 2xx responses under every X-RateLimit-Remaining header
ApiAnswers ==
    StatusFailures \cup TransportFailures
    \cup Successes(RemainingHeaders, {JDict(EmptyMap), JList(<<RepoA>>), Undecodable})

ApiInputs ==
    {[op |-> "_api_request", net |-> n, done |-> FALSE, out |-> NoOutcome] : n \in ApiAnswers}

\* the answers to the two requests of get_repo_details
PrimaryAnswers == DispatchFailures \cup Successes(DispatchHeaders, RepoDetailBodies)
LanguagesAnswers ==
    StatusFailures \cup TransportFailures \cup Successes(DispatchHeaders, LanguageBodies)

DetailInputs ==
    {[op |-> "get_repo_details", self |-> GitHubClient("ghp_test_token", "testuser"),
      repo_name |-> r, net1 |-> n1, net2 |-> n2, done |-> FALSE, out |-> NoOutcome] :
        r \in {"test-repo", "octocat/hello-world"}, n1 \in PrimaryAnswers, n2 \in LanguagesAnswers}

\* the queries of a search on its own, one of them with a qualifier of its own
SearchInputs ==
    {[op |-> "search_code", self |-> c, query |-> q, per_page |-> n, net |-> a,
      done |-> FALSE, out |-> NoOutcome] :
        c \in Clients, q \in {"", "test query", "def main user:octocat"}, n \in {30, 150},
        a \in TransportFailures \cup Successes(ResetHeaders, SearchBodies)}

\* a client to release: on its own or inside a with block, whose body ends
\* well or raises
ReleaseInputs ==
    {[op |-> "release", self |-> c, scope |-> s, inside |-> e, escaped |-> NoExc,
      closes |-> 0, failed |-> FALSE] :
        c \in Clients, s \in {"none", "entered"},
        e \in {NoExc, Exc("ValueError", "Resource not found or not accessible.")}}

UnitInit ==
    /\ ServerInit
    /\ env = [GITHUB_TOKEN |-> JStr("ghp_test_token"), GITHUB_USERNAME |-> JStr("testuser")]
    /\ unit \in ParseInputs \cup ApiInputs \cup DetailInputs \cup SearchInputs \cup ReleaseInputs

Apply_parse_repo_name ==
    /\ unit.op = "_parse_repo_name" /\ ~unit.done
    /\ unit' = [unit EXCEPT !.done = TRUE,
                            !.out = _parse_repo_name(unit.self, unit.repo_name)]
    /\ UNCHANGED serverVars

Apply_api_request ==
    /\ unit.op = "_api_request" /\ ~unit.done
    /\ unit' = [unit EXCEPT !.done = TRUE,
                            !.out = _api_request("GET", "/user/repos", EmptyMap, unit.net)]
    /\ UNCHANGED serverVars

Apply_get_repo_details ==
    /\ unit.op = "get_repo_details" /\ ~unit.done
    /\ unit' = [unit EXCEPT !.done = TRUE,
                            !.out = GitHubClient_get_repo_details(unit.self, unit.repo_name,
                                                                  unit.net1, unit.net2)]
    /\ UNCHANGED serverVars

Apply_search_code ==
    /\ unit.op = "search_code" /\ ~unit.done
    /\ unit' = [unit EXCEPT !.done = TRUE,
                            !.out = GitHubClient_search_code(unit.self, unit.query,
                                                             unit.per_page, unit.net)]
    /\ UNCHANGED serverVars

\* one more call of close()
Apply_close ==
    /\ unit.op = "release" /\ unit.closes < MaxCloses
    /\ unit' = [unit EXCEPT !.self = close(unit.self).self,
                            !.closes = @ + 1,
                            !.failed = @ \/ close(unit.self).exc /= NoExc]
    /\ UNCHANGED serverVars

\* the with block is left: what __exit__ raises leaves it, else what the
\* body raised unless __exit__ returned True
Apply_exit ==
    /\ unit.op = "release" /\ unit.scope = "entered"
    /\ unit' = [unit EXCEPT !.self = __exit__(unit.self, unit.inside).self,
                            !.scope = "left",
                            !.closes = @ + 1,
                            !.failed = @ \/ __exit__(unit.self, unit.inside).exc /= NoExc,
                            !.escaped =
                                IF __exit__(unit.self, unit.inside).exc /= NoExc
                                THEN __exit__(unit.self, unit.inside).exc
                                ELSE IF __exit__(unit.self, unit.inside).suppress THEN NoExc
                                ELSE unit.inside]
    /\ UNCHANGED serverVars

UnitNext ==
    \/ Apply_parse_repo_name
    \/ Apply_api_request
    \/ Apply_get_repo_details
    \/ Apply_search_code
    \/ Apply_close
    \/ Apply_exit

SpecUnit == UnitInit /\ [][UnitNext]_vars

(***************************************************************************)
(* Dispatches one after another: unit holds the first dispatch of          *)
(* get_repo_details that ran, what it was asked and what it gave, and how  *)
(* the dispatches since then ended.                                        *)
(***************************************************************************)
\* the calls of a host that asks for repositories again and again
RepeatCalls ==
    {[name |-> "get_repo_details", arguments |-> Arguments(Absent, r, Absent)] :
        r \in {Absent, JStr("test-repo"), JStr("octocat/hello-world")}}
    \cup {[name |-> "get_my_repos", arguments |-> Arguments(Absent, Absent, Absent)]}

\* the answers of the upstream to the requests of one dispatch
RepeatAnswers(name) ==
    IF name = "get_repo_details"
    THEN {<<n, NoAnswer>> : n \in {Response(404, "Not Found", NoHeaders, JNull),
                                   TransportFailure(Exc("ConnectError",
                                                        "All connection attempts failed"))}}
         \cup (Successes({NoHeaders}, {DetailA, DetailB})
               \X ({Response(500, "Server Error", NoHeaders, JNull)}
                   \cup Successes({NoHeaders, Header("X-RateLimit-Remaining", "50")},
                                  {Languages(<< <<"Python", JInt(1000)>>,
                                                <<"JavaScript", JInt(500)>> >>)})))
    ELSE {<<n, NoAnswer>> : n \in {Response(401, "Bad credentials", NoHeaders, JNull)}
                                  \cup Successes({NoHeaders}, {JList(<<RepoA>>)})}

RepeatInit ==
    /\ ServerInit
    /\ env = [GITHUB_TOKEN |-> JStr("ghp_test_token"), GITHUB_USERNAME |-> JStr("testuser")]
    /\ unit = NoUnit

\* how a dispatch ended, as the host sees it
Outcome(blocks, exc) ==
    IF exc = NoExc /\ Len(blocks) = 1 /\ ~StartsWith(blocks[1].text, "Error: ")
    THEN "succeeded" ELSE "failed"

\* a dispatch after which the client takes the owner it was asked for as its
\* username
CallToolKeepingOwner(net1, net2) ==
    /\ pc = "called"
    /\ Deliver(call_tool(github, request.name, request.arguments, net1, net2), <<net1, net2>>)
    /\ pc' = "returned"
    /\ unit' = IF unit = NoUnit
               THEN IF request.name = "get_repo_details"
                    THEN [op |-> "call_tool", request |-> request, upstream |-> upstream',
                          result |-> result', escaped |-> escaped', requests |-> requests',
                          since |-> {}]
                    ELSE unit
               ELSE [unit EXCEPT !.since = @ \cup {Outcome(result', escaped')}]
    /\ github' = IF github /= None /\ "repo_name" \in DOMAIN request.arguments.d
                 THEN [github EXCEPT !.username =
                          _parse_repo_name(github, request.arguments.d["repo_name"].s)[1]]
                 ELSE github
    /\ UNCHANGED <<env, phase, request>>

\* call_tool runs as in CallTool; the first dispatch of get_repo_details is
\* written down, and of the later ones how they ended
CallToolRecorded(net1, net2) ==
    /\ pc = "called"
    /\ Deliver(call_tool(github, request.name, request.arguments, net1, net2), <<net1, net2>>)
    /\ pc' = "returned"
    /\ unit' = IF unit = NoUnit
               THEN IF request.name = "get_repo_details"
                    THEN [op |-> "call_tool", request |-> request, upstream |-> upstream',
                          result |-> result', escaped |-> escaped', requests |-> requests',
                          since |-> {}]
                    ELSE unit
               ELSE [unit EXCEPT !.since = @ \cup {Outcome(result', escaped')}]
    /\ UNCHANGED <<env, phase, github, request>>

RepeatNext ==
    \/ setup_github
    \/ \E call \in RepeatCalls : HostCall(call.name, call.arguments)
    \/ \E nets \in (IF github = None THEN {<<NoAnswer, NoAnswer>>}
                    ELSE RepeatAnswers(request.name)) :
         CallToolRecorded(nets[1], nets[2])
    \/ HostReceive

SpecRepeat == RepeatInit /\ [][RepeatNext]_vars

(***************************************************************************)
(* The properties: what call_tool hands to the host.                       *)
(***************************************************************************)
\* the documents the handlers build: a heading, or one of the empty notices
SuccessDocument(text) ==
    \/ StartsWith(text, "# ")
    \/ text \in {"No repositories found.", "No recent activity found."}
    \/ StartsWith(text, "No code matches found for query: '")

FourTools == {"get_my_repos", "get_repo_details", "search_my_code", "get_recent_activity"}
LimitTools == {"get_my_repos", "search_my_code", "get_recent_activity"}

Given(key) == key \in DOMAIN request.arguments.d
\* the arguments a tool cannot do without are there
RequiredGiven ==
    /\ request.name = "get_repo_details" => Given("repo_name")
    /\ request.name = "search_my_code" => Given("query")

\* C1: once call_tool has run, for any tool name, arguments, upstream answer
\* or a client that was never set up, no exception has left it and the host
\* holds exactly one text block, an "Error: " text or a success document.
C1_OneTextBlockNothingEscapes ==
    pc = "returned" =>
        /\ escaped = NoExc
        /\ Len(result) = 1
        /\ result[1].type = "text"
        /\ (StartsWith(result[1].text, "Error: ") \/ SuccessDocument(result[1].text))

\* C1's case: a known tool called while the client was never initialised
C1_Witness ==
    /\ pc = "returned" /\ github = None /\ request.name = "get_my_repos"
    /\ escaped = NoExc
    /\ result = <<TextContent("Error: GitHub client not initialized")>>

\* C2: a name outside the four tools gives the one text block
\* "Error: Unknown tool: {name}" and no request to the upstream.
C2_UnknownToolNamed ==
    (pc = "returned" /\ request.name \notin FourTools) =>
        /\ result = <<TextContent("Error: Unknown tool: " \o request.name)>>
        /\ requests = <<>>

\* C2's case: a misspelt tool called on a serving server
C2_Witness ==
    /\ pc = "returned" /\ github /= None /\ request.name = "get_my_repo"
    /\ result = <<TextContent("Error: Unknown tool: get_my_repo")>>
    /\ requests = <<>>

\* C3: for get_my_repos, search_my_code and get_recent_activity, a limit
\* outside 1..100 fails with a text containing "limit must be between 1 and
\* 100", and no request goes to the upstream.
C3_LimitOutOfRangeRejected ==
    (/\ pc = "returned" /\ github /= None
     /\ request.name \in LimitTools /\ RequiredGiven
     /\ Given("limit") /\ request.arguments.d["limit"].n \notin 1..100) =>
        /\ Len(result) = 1
        /\ Contains(result[1].text, "limit must be between 1 and 100")
        /\ requests = <<>>

\* the first answer is a 2xx response whose body has the shape the tool reads
WellAnswered ==
    /\ Len(upstream) = 1
    /\ upstream[1].kind = "response"
    /\ upstream[1].status_code \in 200..299
    /\ ("X-RateLimit-Remaining" \in DOMAIN upstream[1].headers
            => IsIntLiteral(upstream[1].headers["X-RateLimit-Remaining"]))
    /\ upstream[1].body.t = (IF request.name = "search_my_code" THEN "dict" ELSE "list")

\* C4: for the three tools with a limit, on an initialised client: without a
\* limit the upstream request carries per_page = 30; with a limit L in 1..100
\* it carries per_page = L, and the call succeeds when the upstream answers
\* as it should.
C4_LimitReachesUpstream ==
    (pc = "returned" /\ github /= None /\ request.name \in LimitTools /\ RequiredGiven) =>
        IF ~Given("limit")
        THEN Len(requests) = 1 /\ requests[1].params.per_page = 30
        ELSE request.arguments.d["limit"].n \in 1..100 =>
                /\ Len(requests) = 1
                /\ requests[1].params.per_page = request.arguments.d["limit"].n
                /\ ~Contains(result[1].text, "limit must be")
                /\ (WellAnswered => SuccessDocument(result[1].text))

\* C4's case: the upper boundary, answered with matches
C4_Witness ==
    /\ pc = "returned" /\ request.name = "search_my_code"
    /\ Given("limit") /\ request.arguments.d["limit"].n = 100
    /\ Len(requests) = 1 /\ requests[1].params.per_page = 100
    /\ StartsWith(result[1].text, "# Code Search Results for 'test query'")

\* C5: get_repo_details without repo_name and search_my_code without query
\* give one "Error: ..." text block, and no request goes to the upstream.
C5_MissingArgumentFails ==
    (pc = "returned" /\ request.name \in {"get_repo_details", "search_my_code"}
     /\ ~RequiredGiven) =>
        /\ Len(result) = 1
        /\ StartsWith(result[1].text, "Error: ")
        /\ requests = <<>>

\* C5's case: a search without a query on a serving server
C5_Witness ==
    /\ pc = "returned" /\ github /= None
    /\ request.name = "search_my_code" /\ ~Given("query")
    /\ result = <<TextContent("Error: 'query'")>>
    /\ requests = <<>>

\* the i-th answer the dispatch consumed
Answer(i) == IF i <= Len(upstream) THEN upstream[i] ELSE NoAnswer
LimitOrDefault == IF Given("limit") THEN request.arguments.d["limit"].n ELSE 30

\* the client's operation of the tool called, on the answers the dispatch got
ClientOperation ==
    CASE request.name = "get_my_repos" ->
            GitHubClient_get_user_repos(github, LimitOrDefault, "updated", Answer(1))
      [] request.name = "get_repo_details" ->
            GitHubClient_get_repo_details(github, request.arguments.d["repo_name"].s,
                                          Answer(1), Answer(2))
      [] request.name = "search_my_code" ->
            GitHubClient_search_code(github, request.arguments.d["query"].s, LimitOrDefault,
                                     Answer(1))
      [] request.name = "get_recent_activity" ->
            GitHubClient_get_user_events(github, LimitOrDefault, Answer(1))

\* C6: when the client's operation raises during a dispatch, the host gets
\* exactly "Error: " followed by the failure's message and nothing else; the
\* requests are those of the one attempt, none of them repeated.
C6_ClientFailurePropagates ==
    (/\ pc = "returned" /\ github /= None
     /\ request.name \in FourTools /\ RequiredGiven
     /\ ClientOperation.raised) =>
        /\ result = <<TextContent("Error: " \o ClientOperation.exc.msg)>>
        /\ requests = ClientOperation.reqs
        /\ Len(requests) = Len(upstream)
        /\ \A i, j \in 1..Len(requests) : i /= j => requests[i] /= requests[j]

\* C6's case: the connection to the upstream fails
C6_Witness ==
    /\ pc = "returned" /\ request.name = "get_repo_details"
    /\ Len(upstream) = 1 /\ upstream[1].kind = "raise"
    /\ Len(requests) = 1
    /\ result = <<TextContent("Error: All connection attempts failed")>>

(***************************************************************************)
(* The properties of the client's functions.                               *)
(***************************************************************************)
\* the body holds "rate limit", each letter in either case
MentionsRateLimit(text) ==
    \E i \in 1..(Len(text) - 9) :
        \A j \in 1..10 :
            CharAt(text, i + j - 1) \in {CharAt("rate limit", j), CharAt("RATE LIMIT", j)}

ApiFailed(status) ==
    /\ unit.op = "_api_request" /\ unit.done
    /\ unit.net.kind = "response" /\ unit.net.status_code = status

HasSlash(s) == \E i \in 1..Len(s) : CharAt(s, i) = "/"

\* C9: parsing a reference with a "/" gives the owner before the first "/"
\* and as name all that follows it; a reference without "/" gives the
\* configured username as owner and the reference itself as name.
C9_ParseAtFirstSlash ==
    (unit.op = "_parse_repo_name" /\ unit.done) =>
        IF HasSlash(unit.repo_name)
        THEN /\ unit.out[1] \o "/" \o unit.out[2] = unit.repo_name
             /\ ~HasSlash(unit.out[1])
        ELSE /\ unit.out[1] = unit.self.username
             /\ unit.out[2] = unit.repo_name

\* C9's case: a reference with two slashes
C9_Witness ==
    /\ unit.op = "_parse_repo_name" /\ unit.done
    /\ unit.repo_name = "owner/repo/extra"
    /\ unit.out = <<"owner", "repo/extra">>

\* the response is a 2xx one that _api_request returns the body of
Fetched(net) ==
    /\ net.kind = "response" /\ net.status_code \in 200..299
    /\ ("X-RateLimit-Remaining" \in DOMAIN net.headers
            => net.headers["X-RateLimit-Remaining"] = ""
               \/ IsIntLiteral(net.headers["X-RateLimit-Remaining"]))
    /\ net.body.t /= "undecodable"

\* C10: when the request for the repository gave its document, and the
\* request for the languages failed (a status outside 2xx, a transport
\* failure or timeout, a body that does not decode) or gave something that
\* is no mapping, get_repo_details returns the document with an empty
\* language_breakdown, having issued both requests.
C10_LanguagesFailureSwallowed ==
    (/\ unit.op = "get_repo_details" /\ unit.done
     /\ Fetched(unit.net1) /\ unit.net1.body.t = "dict"
     /\ (~Fetched(unit.net2) \/ unit.net2.body.t /= "dict")) =>
        /\ ~unit.out.raised
        /\ unit.out.value.t = "dict"
        /\ DOMAIN unit.out.value.d = DOMAIN unit.net1.body.d \cup {"language_breakdown"}
        /\ unit.out.value.d["language_breakdown"].t = "dict"
        /\ DOMAIN unit.out.value.d["language_breakdown"].d = {}
        /\ \A k \in DOMAIN unit.net1.body.d : unit.out.value.d[k] = unit.net1.body.d[k]
        /\ Len(unit.out.reqs) = 2

\* C10's case: the languages request times out
C10_Witness ==
    /\ unit.op = "get_repo_details" /\ unit.done
    /\ Fetched(unit.net1) /\ unit.net1.body = DetailA
    /\ unit.net2.kind = "raise" /\ unit.net2.exc.cls = "ReadTimeout"
    /\ ~unit.out.raised
    /\ DOMAIN unit.out.value.d["language_breakdown"].d = {}

(***************************************************************************)
(* The properties of the documents the handlers build.                     *)
(***************************************************************************)
\* the dispatch of a known tool on an initialised client got its answers, all
\* of them 2xx responses that _api_request returns the body of
Answered(name, n) ==
    /\ pc = "returned" /\ github /= None
    /\ request.name = name /\ RequiredGiven
    /\ Len(upstream) = n
    /\ \A i \in 1..n : Fetched(upstream[i])

\* the languages request was answered with a mapping of integers
BreakdownFetched ==
    /\ Answered("get_repo_details", 2)
    /\ upstream[1].body.t = "dict"
    /\ upstream[2].body.t = "dict"
    /\ \A k \in DOMAIN upstream[2].body.d : upstream[2].body.d[k].t = "int"

BreakdownTotal == SumBytes(upstream[2].body.order, upstream[2].body.d)

\* n of total as a percentage with one decimal, rounded to the nearest
ShareText(n, total) ==
    LET tenths == (2000 * n + total) \div (2 * total)
    IN  ToString(tenths \div 10) \o "." \o ToString(tenths % 10)

\* C11: in the output of get_repo_details every language of the breakdown
\* appears with its share of the bytes as a percentage with one decimal; an
\* empty breakdown, or one whose bytes sum to zero, gives no percentage.
C11_EveryLanguageShare ==
    BreakdownFetched =>
        IF BreakdownTotal = 0
        THEN ~Contains(result[1].text, "%")
        ELSE \A k \in DOMAIN upstream[2].body.d :
                Contains(result[1].text,
                         "- " \o k \o ": "
                         \o ShareText(upstream[2].body.d[k].n, BreakdownTotal) \o "%")

\* C12: an empty list of repositories, an empty list of events and a search
\* answer whose total_count is 0 each give the host one text block that is
\* no "Error: " text and is the tool's empty notice alone, with no row for a
\* repository, an event or a match.
C12_EmptySignalled ==
    /\ (Answered("get_my_repos", 1) /\ upstream[1].body = JList(<<>>))
            => result = <<TextContent("No repositories found.")>>
    /\ (Answered("get_recent_activity", 1) /\ upstream[1].body = JList(<<>>))
            => result = <<TextContent("No recent activity found.")>>
    /\ (/\ Answered("search_my_code", 1)
        /\ upstream[1].body.t = "dict"
        /\ "total_count" \in DOMAIN upstream[1].body.d
        /\ upstream[1].body.d["total_count"] = JInt(0))
            => /\ result = <<TextContent("No code matches found for query: '"
                                         \o request.arguments.d["query"].s \o "'")>>
               /\ ~StartsWith(result[1].text, "Error: ")

\* C12's case: the upstream has no repository for the user
C12_Witness ==
    /\ Answered("get_my_repos", 1)
    /\ upstream[1].body = JList(<<>>)
    /\ escaped = NoExc
    /\ result = <<TextContent("No repositories found.")>>

\* the repositories the upstream listed, each of them a document
ReposListed ==
    /\ Answered("get_my_repos", 1)
    /\ upstream[1].body.t = "list"
    /\ Len(upstream[1].body.l) > 0
    /\ AllDicts(upstream[1].body.l)

\* the sum of a count over the repositories, 0 where one lacks it
RECURSIVE TotalOf(_, _)
TotalOf(repos, field) ==
    IF Len(repos) = 0 THEN 0
    ELSE (IF field \in DOMAIN repos[1].d THEN repos[1].d[field].n ELSE 0)
         + TotalOf(Tail(repos), field)

\* the number of places sub occurs at in s
Occurrences(s, sub) ==
    Cardinality({i \in 1..(Len(s) - Len(sub) + 1) : SubSeq(s, i, i + Len(sub) - 1) = sub})

\* C13: for a list of repositories that is not empty, the output of
\* get_my_repos names the configured user, the number of repositories, the
\* sum of their stars, the sum of their forks and the sort label
\* "recently_updated", and has one row for each repository, in the upstream's
\* order, whose visibility reads "private" or "public" by the private flag.
C13_SummaryAndRows ==
    ReposListed =>
        LET repos == upstream[1].body.l
            text == result[1].text
        IN  /\ Contains(text, github.username)
            /\ Contains(text, "Found " \o ToString(Len(repos)) \o " repositories")
            /\ Contains(text, "stars across all repositories:** "
                              \o ToString(TotalOf(repos, "stargazers_count")))
            /\ Contains(text, "forks across all repositories:** "
                              \o ToString(TotalOf(repos, "forks_count")))
            /\ Contains(text, "recently_updated")
            /\ Occurrences(text, "\n## ") = Len(repos)
            /\ Occurrences(text, "Visibility:** private")
                   = Cardinality({i \in 1..Len(repos) :
                                     Truthy(Get(repos[i], "private", JBool(FALSE)))})
            /\ Occurrences(text, "Visibility:** public")
                   = Cardinality({i \in 1..Len(repos) :
                                     ~Truthy(Get(repos[i], "private", JBool(FALSE)))})

\* the search answered with matches: a total above 0 and a list of items
MatchesFound ==
    /\ Answered("search_my_code", 1)
    /\ upstream[1].body.t = "dict"
    /\ {"total_count", "items"} \subseteq DOMAIN upstream[1].body.d
    /\ upstream[1].body.d["total_count"].t = "int"
    /\ upstream[1].body.d["total_count"].n > 0
    /\ upstream[1].body.d["items"].t = "list"
    /\ AllDicts(upstream[1].body.d["items"].l)

\* what an item says of itself, or the default where it says nothing
ItemRepository(item) ==
    IF "repository" \in DOMAIN item.d /\ item.d["repository"].t = "dict"
       /\ "full_name" \in DOMAIN item.d["repository"].d
    THEN item.d["repository"].d["full_name"].s ELSE "Unknown"
ItemField(item, key, default) == IF key \in DOMAIN item.d THEN item.d[key].s ELSE default

\* one section per item, in the order of the items
RECURSIVE MatchSections(_)
MatchSections(items) ==
    IF Len(items) = 0 THEN ""
    ELSE "\n\n## " \o ItemRepository(items[1]) \o ": " \o ItemField(items[1], "path", "Unknown")
         \o (IF ItemField(items[1], "html_url", "") = "" THEN ""
             ELSE "\n**URL:** " \o ItemField(items[1], "html_url", ""))
         \o MatchSections(Tail(items))

\* C14: for a search answer whose total_count is above 0, the output of
\* search_my_code reports the total_count as received, as returned count the
\* number of items in the answer (which may be below the total), and then one
\* match per item in the items' order with the repository's full name, the
\* path and the URL: the returned count is the number of matches listed.
C14_MatchPerItem ==
    MatchesFound =>
        LET items == upstream[1].body.d["items"].l
            total == upstream[1].body.d["total_count"].n
        IN  /\ Len(result) = 1
            /\ result[1].text =
                    "# Code Search Results for '" \o request.arguments.d["query"].s \o "'\n\n"
                    \o "Found " \o ToString(total) \o " matches (showing first "
                    \o ToString(Len(items)) \o ")\n"
                    \o MatchSections(items)
            /\ Occurrences(result[1].text, "\n## ") = Len(items)

\* C14's case: two matches in all, one of them in the answer
C14_Witness ==
    /\ MatchesFound
    /\ upstream[1].body.d["total_count"].n = 2
    /\ upstream[1].body.d["items"].l = <<ItemA>>
    /\ Contains(result[1].text, "Found 2 matches (showing first 1)")
    /\ Contains(result[1].text, "## testuser/repo1: src/main.py")

\* the events the upstream listed, each of them a document
EventsListed ==
    /\ Answered("get_recent_activity", 1)
    /\ upstream[1].body.t = "list"
    /\ Len(upstream[1].body.l) > 0
    /\ AllDicts(upstream[1].body.l)

EventsOf(type) ==
    {e \in {upstream[1].body.l[i] : i \in 1..Len(upstream[1].body.l)} : e.d["type"].s = type}

\* what follows the last "/" of ref, the whole of it when it has none
LastSegment(ref) ==
    IF ~HasSlash(ref) THEN ref
    ELSE LET i == CHOOSE k \in 1..Len(ref) :
                      /\ CharAt(ref, k) = "/"
                      /\ \A j \in (k + 1)..Len(ref) : CharAt(ref, j) /= "/"
         IN  SubSeq(ref, i + 1, Len(ref))

PushRef(e) == IF "ref" \in DOMAIN e.d["payload"].d THEN e.d["payload"].d["ref"].s ELSE "unknown branch"
PushCommits(e) ==
    IF "commits" \in DOMAIN e.d["payload"].d THEN Len(e.d["payload"].d["commits"].l) ELSE 0

\* C15: for every Push event of the upstream's list, the output of
\* get_recent_activity carries the event's type tag, the name of its
\* repository, its creation timestamp, as branch the last "/"-separated
\* segment of the ref (the whole ref without a "/") and as commit count the
\* length of the commits list.
C15_PushEventEmitted ==
    EventsListed =>
        \A e \in EventsOf("PushEvent") :
            /\ Contains(result[1].text, e.d["type"].s)
            /\ Contains(result[1].text, e.d["repo"].d["name"].s)
            /\ Contains(result[1].text, e.d["created_at"].s)
            /\ Contains(result[1].text, "(" \o LastSegment(PushRef(e)) \o ")")
            /\ Contains(result[1].text, ToString(PushCommits(e)) \o " commit")

\* the subject of a PullRequest or Issues event: the document under key
Subject(e, key) == e.d["payload"].d[key].d

\* C16: for every PullRequest event of the upstream's list the output of
\* get_recent_activity carries the payload's action, the pull request's
\* title and the pull request's number; for every Issues event the action,
\* the issue's title and the issue's number.
C16_NumberEmitted ==
    EventsListed =>
        /\ \A e \in EventsOf("PullRequestEvent") :
              /\ Contains(result[1].text, e.d["payload"].d["action"].s)
              /\ Contains(result[1].text, Subject(e, "pull_request")["title"].s)
              /\ Contains(result[1].text, ToString(Subject(e, "pull_request")["number"].n))
        /\ \A e \in EventsOf("IssuesEvent") :
              /\ Contains(result[1].text, e.d["payload"].d["action"].s)
              /\ Contains(result[1].text, Subject(e, "issue")["title"].s)
              /\ Contains(result[1].text, ToString(Subject(e, "issue")["number"].n))

\* C17: for every query and configured username, search_code sends one
\* request to /search/code whose query text is the caller's query, a space
\* and "user:{username}", and returns the body of the answer as it came.
C17_SearchScopedToUser ==
    (unit.op = "search_code" /\ unit.done) =>
        /\ Len(unit.out.reqs) = 1
        /\ unit.out.reqs[1].url = "https://api.github.com/search/code"
        /\ unit.out.reqs[1].params.q = unit.query \o " user:" \o unit.self.username
        /\ (Fetched(unit.net) => ~unit.out.raised /\ unit.out.value = unit.net.body)

\* C17's case: a query that names another user keeps the configured scope
C17_Witness ==
    /\ unit.op = "search_code" /\ unit.done
    /\ unit.query = "def main user:octocat" /\ unit.self.username = "testuser"
    /\ unit.out.reqs[1].params.q = "def main user:octocat user:testuser"
    /\ Fetched(unit.net) /\ unit.net.body.t = "dict"
    /\ unit.out.value = unit.net.body

\* _api_request ran on a 2xx response
ApiSucceeded ==
    /\ unit.op = "_api_request" /\ unit.done
    /\ unit.net.kind = "response" /\ unit.net.status_code \in 200..299

\* the X-RateLimit-Remaining header is there and reads as the integer n
RemainingIs(n) ==
    /\ "X-RateLimit-Remaining" \in DOMAIN unit.net.headers
    /\ unit.net.headers["X-RateLimit-Remaining"] = ToString(n)

\* C18: after a 2xx response, _api_request has logged a rate-limit warning
\* exactly when the X-RateLimit-Remaining header is there with an integer
\* below 100, and the warning names that integer; with 100 or more, or
\* without the header, nothing is logged.
C18_WarningBelowThreshold ==
    ApiSucceeded =>
        /\ (unit.out.warnings /= <<>>) <=> (\E n \in 0..99 : RemainingIs(n))
        /\ \A n \in 0..99 :
              RemainingIs(n) =>
                  unit.out.warnings = <<"GitHub API rate limit low: " \o ToString(n)
                                        \o " requests remaining">>

\* C18's case: one request below the threshold
C18_Witness ==
    /\ ApiSucceeded /\ RemainingIs(99)
    /\ ~unit.out.raised
    /\ unit.out.warnings = <<"GitHub API rate limit low: 99 requests remaining">>

Repeated ==
    /\ pc = "returned" /\ unit /= NoUnit
    /\ request.name = "get_repo_details" /\ Given("repo_name")
    /\ request = unit.request
    /\ upstream = unit.upstream

\* C20: a dispatch of get_repo_details with the repo_name of the first one,
\* against the same answers of the upstream, gives what the first one gave,
\* whatever dispatches ran in between, failed ones included: the same text
\* block, after the same requests.
C20_RepeatedDispatchAgrees ==
    Repeated =>
        /\ result = unit.result
        /\ escaped = unit.escaped
        /\ requests = unit.requests

\* C20's case: the repository is asked for again after a dispatch that failed
C20_Witness ==
    /\ Repeated
    /\ github /= None /\ "failed" \in unit.since
    /\ unit.request.arguments.d["repo_name"].s = "test-repo"
    /\ Len(upstream) = 2 /\ Fetched(upstream[1]) /\ Fetched(upstream[2])
    /\ StartsWith(result[1].text, "# ")
    /\ result = unit.result

\* C21: however many times close() ran on a client, the leaving of a with
\* block counted, no call failed and after the first the client is closed;
\* a with block that was left has closed the client, and what its body
\* raised leaves it.
C21_CloseIsRepeatable ==
    unit.op = "release" =>
        /\ ~unit.failed
        /\ (unit.closes >= 1 => unit.self.closed)
        /\ (unit.scope = "left" => unit.self.closed /\ unit.escaped = unit.inside)

\* C21's case: close() again after a with block whose body raised
C21_Witness ==
    /\ unit.op = "release" /\ unit.scope = "left" /\ unit.closes = 2
    /\ unit.inside /= NoExc /\ unit.escaped = unit.inside
    /\ unit.self.closed /\ ~unit.failed

\* a known tool ran on an initialised client with the arguments it needs
Dispatched ==
    /\ pc = "returned" /\ github /= None
    /\ request.name \in FourTools /\ RequiredGiven

\* C22: a dispatch sends one request, or two for get_repo_details, and none
\* of them twice: get_my_repos, search_my_code and get_recent_activity send
\* exactly one whether it succeeds or fails; get_repo_details sends the
\* repository request first and the languages request exactly when the first
\* gave its body, so a failed repository request is the only request and the
\* host gets its failure.
C22_OneOrTwoRequests ==
    Dispatched =>
        /\ \A i, j \in 1..Len(requests) : i /= j => requests[i].url /= requests[j].url
        /\ IF request.name /= "get_repo_details"
           THEN Len(requests) = 1
           ELSE /\ Len(requests) \in {1, 2}
                /\ ~Contains(requests[1].url, "/languages")
                /\ (Len(requests) = 2 <=> Fetched(upstream[1]))
                /\ (Len(requests) = 2 => requests[2].url = requests[1].url \o "/languages")
                /\ (~Fetched(upstream[1]) => StartsWith(result[1].text, "Error: "))
                /\ (upstream[1].kind = "raise"
                        => result = <<TextContent("Error: " \o upstream[1].exc.msg)>>)

\* C22's case: the repository request is answered 404
C22_Witness ==
    /\ Dispatched /\ request.name = "get_repo_details"
    /\ upstream[1].kind = "response" /\ upstream[1].status_code = 404
    /\ Len(requests) = 1
    /\ result = <<TextContent("Error: Resource not found or not accessible.")>>

TokenGiven == env.GITHUB_TOKEN /= Absent /\ env.GITHUB_TOKEN.s /= ""

\* the client is there exactly on a server that got its token, holds that
\* token and the username of the environment (or the fallback), and without
\* a token the server never serves and, once main() returned, no call runs
CredentialsAsConfigured ==
    /\ github /= None =>
          /\ TokenGiven /\ phase /= "boot"
          /\ github.token = env.GITHUB_TOKEN.s
          /\ github.username = (IF env.GITHUB_USERNAME = Absent THEN "jw1"
                                ELSE env.GITHUB_USERNAME.s)
    /\ phase = "serving" => github /= None
    /\ ~TokenGiven => github = None /\ phase \in {"boot", "exited"}
    /\ phase = "exited" => pc = "idle"

\* the handle changes in one step only: from None, at startup, with no call
\* running, to a client on a server that serves from then on
AssignedAtStartupOnly ==
    github' /= github =>
        /\ github = None /\ phase = "boot" /\ pc = "idle"
        /\ phase' = "serving" /\ pc' = "idle"

\* C23: the client handle is assigned at most once, at startup and before
\* the server serves a call; without a token no client is built and the
\* server never serves; through every dispatch the client's token and
\* username stay what they were made with.
C23_CredentialsSetOnce == [] CredentialsAsConfigured /\ [][AssignedAtStartupOnly]_vars

\* C23's case: a dispatch returned on a serving server, the client as built
C23_Witness ==
    /\ phase = "serving" /\ pc = "returned" /\ Len(requests) = 1
    /\ github = GitHubClient("ghp_test_token", "testuser")

\* C24: over a run of the server, a client that was built at startup is
\* released at shutdown: once main() has returned, whichever way the server
\* stopped, close() has run on the client.
C24_ReleasedOnShutdown ==
    (phase = "exited" /\ github /= None) => github.closed

\* s is one segment of a path
Segment(s) == s /= "" /\ ~HasSlash(s)

\* url is the base URL followed by /repos/{owner}/{repo} and suffix
RepoUrl(url, suffix) ==
    \E i, j \in 1..Len(url) :
        /\ i < j
        /\ SubSeq(url, 1, i) = "https://api.github.com/repos/"
        /\ CharAt(url, j) = "/"
        /\ Segment(SubSeq(url, i + 1, j - 1))
        /\ \E k \in j..Len(url) :
              /\ Segment(SubSeq(url, j + 1, k))
              /\ SubSeq(url, k + 1, Len(url)) = suffix

\* the requests are GET requests to the endpoints of the tool called
OwnEndpoints ==
    /\ \A i \in 1..Len(requests) : requests[i].method = "GET"
    /\ CASE request.name = "get_my_repos" ->
                \A i \in 1..Len(requests) :
                    requests[i].url = "https://api.github.com/user/repos"
         [] request.name = "search_my_code" ->
                \A i \in 1..Len(requests) :
                    requests[i].url = "https://api.github.com/search/code"
         [] request.name = "get_recent_activity" ->
                \A i \in 1..Len(requests) :
                    requests[i].url = "https://api.github.com/users/" \o github.username
                                      \o "/events"
         [] request.name = "get_repo_details" ->
                \A i \in 1..Len(requests) :
                    RepoUrl(requests[i].url, IF i = 1 THEN "" ELSE "/languages")
         [] OTHER -> requests = <<>>

\* C25: whatever tool was called with whatever arguments, every request sent
\* is a GET to one of /user/repos, /repos/{owner}/{repo},
\* /repos/{owner}/{repo}/languages, /search/code and /users/{user}/events
\* under https://api.github.com, and a known tool sends requests to its own
\* endpoints only.
C25_ReadOnlyFiveEndpoints ==
    pc = "returned" => OwnEndpoints

\* get_repo_details ran, both requests gave their bodies and the languages
\* are a mapping
LanguagesMapped ==
    /\ unit.op = "get_repo_details" /\ unit.done
    /\ Fetched(unit.net1) /\ unit.net1.body.t = "dict"
    /\ Fetched(unit.net2) /\ unit.net2.body.t = "dict"

\* the value reads as a number: an integer, a float with an integer part, or
\* the decimal text of an integer
ReadsAsNumber(v) ==
    \/ v.t = "int"
    \/ v.t = "float" /\ v.kind = "finite"
    \/ v.t = "str" /\ IsIntLiteral(v.s)
ByteCount(v) ==
    CASE v.t = "int" -> v.n
      [] v.t = "float" -> v.trunc
      [] v.t = "str" -> StrToInt(v.s)

\* C26: when the languages are a mapping, get_repo_details returns, and its
\* language_breakdown holds exactly the languages whose value reads as a
\* number, each with its integer byte count: a value that does not is
\* dropped alone.
C26_DroppedOneByOne ==
    LanguagesMapped =>
        /\ ~unit.out.raised
        /\ LET languages == unit.net2.body.d
               kept == unit.out.value.d["language_breakdown"].d
           IN  /\ DOMAIN kept = {k \in DOMAIN languages : ReadsAsNumber(languages[k])}
               /\ \A k \in DOMAIN kept : kept[k] = JInt(ByteCount(languages[k]))

====
